---- MODULE Spec2Model ----
(***************************************************************************)
(* Model of yizhan-tech/project_kick: the pitch coordinate conversions,    *)
(* the clipped Voronoi tessellation of StandardPitch, the entity handles   *)
(* of VoronoiManager, the metric-to-raw conversion of the tracking loader  *)
(* and the logistic pitch-control transform.                               *)
(*                                                                         *)
(* Floating-point numbers are modelled as exact rationals <<num, den>>     *)
(* (den > 0, lowest terms), so every arithmetic step of the code is        *)
(* reproduced without rounding; tolerances (1e-9, 1e-12, 1e-7) keep their  *)
(* values.                                                                 *)
(***************************************************************************)
EXTENDS Integers, Sequences, FiniteSets, TLC

VARIABLES
    orientation,   \* StandardPitch.orientation
    points_ws,     \* argument of get_voronoi_cells (list of raw 0-100 points)
    cells,         \* value returned by get_voronoi_cells
    clip_trace,    \* per site, the (j, n) of every clip get_voronoi_cells made
    vor_pc,        \* "input" before the call, "done" after it
    player_dfs,    \* convert_and_separate: key -> dataframe (mutated in place)
    dfs_in,        \* the dataframes as they were before the first call
    home_team_dfs, \* convert_and_separate: returned home dictionary
    away_team_dfs, \* convert_and_separate: returned away dictionary
    conv_calls,    \* number of convert_and_separate calls made so far
    team_infl,     \* value of the supplied influence function per team and location
    Z_maps,        \* generate_pitch_control_map: <<home, away>> -> control surface Z
    PC_maps,       \* plot_pc_vs_q: <<home, away>> -> control surface PC
    tracking_df,   \* VoronoiManager: the tracking rows given to its methods
    mgr_pc,        \* "constructed", then "animating" once the intro was shown
    frame_idx,     \* run_animation: number of frames of the loop completed
    player_dots,   \* VoronoiManager.player_dots: <<team, id>> -> Dot
    polygons,      \* VoronoiManager.polygons: "list" or the VGroup's polygons
    ball,          \* VoronoiManager.ball: 0 for None, else the ball's Dot
    mobjects,      \* every Dot constructed: its position, colour and birth
    scene,         \* the Dots shown on the scene
    emitted,       \* the frames shown so far, in order: [by, frame]
    clip_poly,     \* _clip_poly_halfspace_2d: the polygon given
    clip_n,        \* _clip_poly_halfspace_2d: the normal n
    clip_c,        \* _clip_poly_halfspace_2d: the offset c
    clip_out,      \* _clip_poly_halfspace_2d: the list returned
    clip_pc,       \* "input" before the call, "done" after it
    sorted_files,  \* process_tracking_files: the files, in the order given
    team_id_map,   \* create_player_dataframes: team id -> team name
    player_name_map, \* create_player_dataframes: <<team name, jersey>> -> name
    file_i,        \* process_tracking_files: number of files gone through
    store,         \* process_tracking_files: [key, chunks] in insertion order
    global_time_offset, \* process_tracking_files: offset for the next file
    created_dfs,   \* create_player_dataframes: key_name -> rows
    ldr_pc         \* "files", then "stored", then "created"

vorVars == <<orientation, points_ws, cells, clip_trace, vor_pc>>

convVars == <<player_dfs, dfs_in, home_team_dfs, away_team_dfs, conv_calls>>

ctlVars == <<team_infl, Z_maps, PC_maps>>

mgrVars == <<tracking_df, mgr_pc, frame_idx, player_dots, polygons, ball, mobjects, scene,
            emitted>>

clipVars == <<clip_poly, clip_n, clip_c, clip_out, clip_pc>>

ldrVars == <<sorted_files, team_id_map, player_name_map, file_i, store,
            global_time_offset, created_dfs, ldr_pc>>

vars == <<vorVars, convVars, ctlVars, mgrVars, clipVars, ldrVars>>

LdrIdle ==
    /\ sorted_files = <<>>
    /\ team_id_map = <<>>
    /\ player_name_map = <<>>
    /\ file_i = 0
    /\ store = <<>>
    /\ global_time_offset = <<>>
    /\ created_dfs = <<>>
    /\ ldr_pc = "idle"

ClipIdle ==
    /\ clip_poly = <<>>
    /\ clip_n = <<>>
    /\ clip_c = <<>>
    /\ clip_out = <<>>
    /\ clip_pc = "idle"

MgrIdle ==
    /\ tracking_df = <<>>
    /\ mgr_pc = "idle"
    /\ frame_idx = 0
    /\ player_dots = <<>>
    /\ polygons = "list"
    /\ ball = 0
    /\ mobjects = <<>>
    /\ scene = {}
    /\ emitted = <<>>

VorIdle ==
    /\ orientation = "horizontal"
    /\ points_ws = <<>>
    /\ cells = <<>>
    /\ clip_trace = <<>>
    /\ vor_pc = "idle"

ConvIdle ==
    /\ player_dfs = <<>>
    /\ dfs_in = <<>>
    /\ home_team_dfs = <<>>
    /\ away_team_dfs = <<>>
    /\ conv_calls = 0

CtlIdle ==
    /\ team_infl = <<>>
    /\ Z_maps = <<>>
    /\ PC_maps = <<>>

----------------------------------------------------------------------------
(* Exact rational arithmetic                                               *)

Abs(a) == IF a < 0 THEN -a ELSE a

RECURSIVE GCD(_, _)
GCD(a, b) == IF b = 0 THEN a ELSE GCD(b, a % b)

RNorm(n, d) ==
    LET g == GCD(Abs(n), Abs(d))
        s == IF d < 0 THEN -1 ELSE 1
    IN  <<(s * n) \div g, (s * d) \div g>>

RInt(k) == <<k, 1>>

RNeg(a) == <<-a[1], a[2]>>

RAdd(a, b) ==
    LET g == GCD(a[2], b[2])
    IN  RNorm(a[1] * (b[2] \div g) + b[1] * (a[2] \div g), (a[2] \div g) * b[2])

RSub(a, b) == RAdd(a, RNeg(b))

RMul(a, b) ==
    LET g1 == GCD(Abs(a[1]), b[2])
        g2 == GCD(Abs(b[1]), a[2])
    IN  RNorm((a[1] \div g1) * (b[1] \div g2), (a[2] \div g2) * (b[2] \div g1))

RInv(a) == IF a[1] < 0 THEN <<-a[2], -a[1]>> ELSE <<a[2], a[1]>>

RDiv(a, b) == RMul(a, RInv(b))

RLeq(a, b) == RSub(a, b)[1] <= 0

RLess(a, b) == RSub(a, b)[1] < 0

RAbs(a) == <<Abs(a[1]), a[2]>>

\* a <= 1/inv for a rational a and an integer inv > 0 (no product is formed)
RLeqInv(a, inv) == a[1] <= a[2] \div inv

\* a < 1/inv
RLessInv(a, inv) == a[1] <= (a[2] - 1) \div inv

----------------------------------------------------------------------------
(* 2D vectors: <<x, y>> of rationals (the code's third component is always *)
(* 0 and every product slices it away with [:2])                           *)

VAdd(p, q) == <<RAdd(p[1], q[1]), RAdd(p[2], q[2])>>

VSub(p, q) == <<RSub(p[1], q[1]), RSub(p[2], q[2])>>

VScale(t, p) == <<RMul(t, p[1]), RMul(t, p[2])>>

Dot(p, q) == RAdd(RMul(p[1], q[1]), RMul(p[2], q[2]))

----------------------------------------------------------------------------
(* StandardPitch                                                           *)

length == 105

width == 68

scale == <<2, 25>>

Orientations == {"horizontal", "vertical"}

to_coord(o, x, y) ==
    IF o = "vertical"
    THEN <<RMul(RNeg(y), scale), RMul(x, scale)>>
    ELSE <<RMul(x, scale), RMul(y, scale)>>

wyscout_to_meters(x_ws, y_ws) ==
    LET x_m == RMul(RSub(RDiv(x_ws, RInt(100)), <<1, 2>>), RInt(length))
        y_m == RMul(RSub(<<1, 2>>, RDiv(y_ws, RInt(100))), RInt(width))
    IN  <<x_m, y_m>>

wyscout_to_manim(o, x_ws, y_ws) ==
    LET m == wyscout_to_meters(x_ws, y_ws) IN to_coord(o, m[1], m[2])

\* eps = 1e-9 = 1/EpsInv
EpsInv == 1000000000

\* 1e-12 = (1/DenomTolRootInv)^2
DenomTolRootInv == 1000000

\* 1e-7 = 1/NormTolInv, compared on the squared norm
NormTolInv == 10000000

\* Mutant: the half-plane test with the inequality turned round
InHalfspace_flipped(n, c, p) == RLeqInv(RSub(c, Dot(n, p)), EpsInv)

\* np.dot(n2d, p[:2]) <= c + eps
InHalfspace(n, c, p) == RLeqInv(RSub(Dot(n, p), c), EpsInv)

\* abs(denom) > 1e-12
DenomUsable(denom) ==
    ~(Abs(denom[1]) <= (denom[2] \div DenomTolRootInv) \div DenomTolRootInv)

\* Mutant: t measured from cur instead of prev
Intersection_from_cur(n, c, prev, cur) ==
    LET edge == VSub(cur, prev)
        denom == Dot(n, edge)
        t == RDiv(RSub(c, Dot(n, cur)), denom)
    IN  VAdd(prev, VScale(t, edge))

\* Mutant: the middle of the edge is inserted
Intersection_midpoint(n, c, prev, cur) ==
    VAdd(prev, VScale(<<1, 2>>, VSub(cur, prev)))

\* prev + t * edge with t = (c - n.prev) / denom
Intersection(n, c, prev, cur) ==
    LET edge == VSub(cur, prev)
        denom == Dot(n, edge)
        t == RDiv(RSub(c, Dot(n, prev)), denom)
    IN  VAdd(prev, VScale(t, edge))

RECURSIVE ClipLoop(_, _, _, _, _, _, _)
ClipLoop(poly, n, c, k, prev, prev_in, out) ==
    IF k > Len(poly) THEN out
    ELSE
        LET cur == poly[k]
            cur_in == InHalfspace(n, c, cur)
            out1 == IF cur_in # prev_in /\ DenomUsable(Dot(n, VSub(cur, prev)))
                    THEN Append(out, Intersection(n, c, prev, cur))
                    ELSE out
            out2 == IF cur_in THEN Append(out1, cur) ELSE out1
        IN  ClipLoop(poly, n, c, k + 1, cur, cur_in, out2)

_clip_poly_halfspace_2d(poly, n, c) ==
    IF poly = <<>> THEN <<>>
    ELSE LET prev == poly[Len(poly)]
         IN  ClipLoop(poly, n, c, 1, prev, InHalfspace(n, c, prev), <<>>)

base_poly(o) ==
    LET l == RMul(RInt(length), scale)
        w == RMul(RInt(width), scale)
        hl == RMul(l, <<1, 2>>)
        hw == RMul(w, <<1, 2>>)
    IN  IF o = "horizontal"
        THEN << <<RNeg(hl), RNeg(hw)>>, <<hl, RNeg(hw)>>, <<hl, hw>>, <<RNeg(hl), hw>> >>
        ELSE << <<RNeg(hw), RNeg(hl)>>, <<hw, RNeg(hl)>>, <<hw, hl>>, <<RNeg(hw), hl>> >>

pts_manim(o, pts) ==
    [k \in 1..Len(pts) |-> wyscout_to_manim(o, RInt(pts[k][1]), RInt(pts[k][2]))]

\* Mutant: the coincidence test left out
Coincident_never(n) == FALSE

\* np.linalg.norm(n) < 1e-7
Coincident(n) == LET s == Dot(n, n) IN s[1] <= ((s[2] - 1) \div NormTolInv) \div NormTolInv

\* Mutants: the bisector put through site i, through site j
BisectorOffset_at_pi(n, pi, pj) == Dot(n, pi)

BisectorOffset_at_pj(n, pi, pj) == Dot(n, pj)

\* midpoint = (pi + pj) / 2; c = np.dot(n[:2], midpoint[:2])
BisectorOffset(n, pi, pj) ==
    LET midpoint == VScale(<<1, 2>>, VAdd(pi, pj)) IN Dot(n, midpoint)

\* The inner loop of get_voronoi_cells for site i, from site j on; acc holds
\* the cell so far and the clips made so far.
RECURSIVE CellLoop(_, _, _, _)
CellLoop(P, i, j, acc) ==
    IF j > Len(P) THEN acc
    ELSE
        LET n == VSub(P[j], P[i])
        IN  IF i = j \/ Coincident(n) THEN CellLoop(P, i, j + 1, acc)
            ELSE
                LET c == BisectorOffset(n, P[i], P[j])
                IN  CellLoop(P, i, j + 1,
                        [cell |-> _clip_poly_halfspace_2d(acc.cell, n, c),
                         clips |-> Append(acc.clips, <<j, n>>)])

\* Mutant: the outer loop stops one site short
VoronoiRun_short(o, pts) ==
    LET P == pts_manim(o, pts)
    IN  [i \in 1..(Len(pts) - 1) |-> CellLoop(P, i, 1, [cell |-> base_poly(o), clips |-> <<>>])]

VoronoiRun(o, pts) ==
    LET P == pts_manim(o, pts)
    IN  [i \in 1..Len(pts) |-> CellLoop(P, i, 1, [cell |-> base_poly(o), clips |-> <<>>])]

get_voronoi_cells(o, pts) ==
    LET run == VoronoiRun(o, pts) IN [i \in DOMAIN run |-> run[i].cell]

----------------------------------------------------------------------------
(* Inputs of the tessellation                                              *)

MaxSites == 3

\* Raw 0-100 points: three on the pitch (not collinear), the mirror image of
\* (75, 50) across the goal line x = 100, and one far outside.
SitePoints == {<<25, 25>>, <<25, 75>>, <<75, 50>>, <<125, 50>>, <<150, 50>>}

RECURSIVE SeqsUpTo(_, _)
SeqsUpTo(S, n) ==
    IF n = 0 THEN {<<>>}
    ELSE LET prev == SeqsUpTo(S, n - 1)
         IN  prev \cup {Append(s, x) : s \in {q \in prev : Len(q) = n - 1}, x \in S}

VorInit ==
    /\ LdrIdle
    /\ ClipIdle
    /\ ConvIdle
    /\ CtlIdle
    /\ MgrIdle
    /\ orientation \in Orientations
    /\ points_ws \in SeqsUpTo(SitePoints, MaxSites)
    /\ cells = <<>>
    /\ clip_trace = <<>>
    /\ vor_pc = "input"

GetVoronoiCells ==
    /\ vor_pc = "input"
    /\ LET run == VoronoiRun(orientation, points_ws)
       IN  /\ cells' = [i \in DOMAIN run |-> run[i].cell]
           /\ clip_trace' = [i \in DOMAIN run |-> run[i].clips]
    /\ vor_pc' = "done"
    /\ UNCHANGED <<orientation, points_ws, convVars, ctlVars, mgrVars, clipVars, ldrVars>>

VorNext == GetVoronoiCells

SpecVoronoi == VorInit /\ [][VorNext]_vars

----------------------------------------------------------------------------
(* StandardPitch._clip_poly_halfspace_2d called on its own.                *)

\* A coordinate inside the tolerance band of the half-plane test: 0 < b <= eps
BandCoord == <<1, 1500000000>>

PtOf(x, y) == <<RInt(x), RInt(y)>>

LatticePoints == {PtOf(-1, -1), PtOf(1, -1), PtOf(1, 1), PtOf(-1, 1), PtOf(0, 0)}

BandPoints == {<<BandCoord, RInt(0)>>, PtOf(1, -1), PtOf(1, 1), PtOf(-1, 0), PtOf(1, 0)}

\* Lists of 3 different points
Triples(S) == {q \in [1..3 -> S] : q[1] # q[2] /\ q[2] # q[3] /\ q[1] # q[3]}

ClipNormals == {PtOf(1, 0), PtOf(0, 1), PtOf(1, 1), PtOf(-1, 1)}

ClipOffsets == {RInt(0), <<1, 2>>, RInt(-2), RInt(3)}

ClipInit ==
    /\ LdrIdle
    /\ VorIdle
    /\ ConvIdle
    /\ CtlIdle
    /\ MgrIdle
    /\ \/ /\ clip_poly \in Triples(LatticePoints) \cup {<<>>}
          /\ clip_n \in ClipNormals
          /\ clip_c \in ClipOffsets
       \/ /\ clip_poly \in Triples(BandPoints)
          /\ clip_n = PtOf(1, 0)
          /\ clip_c = RInt(0)
    /\ clip_out = <<>>
    /\ clip_pc = "input"

ClipPolyHalfspace ==
    /\ clip_pc = "input"
    /\ clip_out' = _clip_poly_halfspace_2d(clip_poly, clip_n, clip_c)
    /\ clip_pc' = "done"
    /\ UNCHANGED <<clip_poly, clip_n, clip_c, vorVars, convVars, ctlVars, mgrVars, ldrVars>>

ClipNext == ClipPolyHalfspace

SpecClip == ClipInit /\ [][ClipNext]_vars

----------------------------------------------------------------------------
(* hawkeye_data_loader: process_tracking_files, one file of the loop at a  *)
(* time, and then create_player_dataframes.  A time_key is [nan, v]; a     *)
(* jersey_number is <<j>>, or <<>> when missing; a missing team_id is      *)
(* "NaN".                                                                  *)

\* parse_file_sequence: (half, minute, sub_minute) of _H_M[_S]_full names
parse_file_sequence(filename) ==
    CASE filename = "match_1_0_full.csv" -> <<1, 0, 0>>
      [] filename = "match_2_45_1_full.csv" -> <<2, 45, 1>>
      [] OTHER -> <<99, 99, 99>>

Num(v) == [nan |-> FALSE, v |-> v]

NaN == [nan |-> TRUE, v |-> 0]

\* float addition
TAdd(a, b) == IF a.nan \/ b.nan THEN NaN ELSE Num(a.v + b.v)

\* Series.max(): the largest value that is not NaN, NaN if there is none
TMax(rows) ==
    LET vals == {rows[r].time_key.v : r \in {r2 \in 1..Len(rows) : ~rows[r2].time_key.nan}}
    IN  IF vals = {} THEN NaN ELSE Num(CHOOSE m \in vals : \A w \in vals : w <= m)

\* dropna(subset=['team_id', 'jersey_number'])
dropna(rows) ==
    SelectSeq(rows, LAMBDA row : row.team_id # "NaN" /\ row.jersey_number # <<>>)

GroupKey(row) == <<row.team_id, row.jersey_number[1]>>

TeamRank(team_id) ==
    CASE team_id = " T1" -> 0
      [] team_id = "T1" -> 1
      [] OTHER -> 2

\* The order in which groupby yields the groups: sorted by key
KeyBefore(a, b) ==
    \/ TeamRank(a[1]) < TeamRank(b[1])
    \/ TeamRank(a[1]) = TeamRank(b[1]) /\ a[2] < b[2]

RECURSIVE SortedKeys(_)
SortedKeys(S) ==
    IF S = {} THEN <<>>
    ELSE LET m == CHOOSE a \in S : \A b \in S \ {a} : KeyBefore(a, b)
         IN  <<m>> \o SortedKeys(S \ {m})

\* store[key].append(player_chunk) on the defaultdict
StoreAppend(st, key, player_chunk) ==
    IF \E n \in 1..Len(st) : st[n].key = key
    THEN [n \in 1..Len(st) |->
            IF st[n].key = key
            THEN [st[n] EXCEPT !.chunks = Append(@, player_chunk)]
            ELSE st[n]]
    ELSE Append(st, [key |-> key, chunks |-> <<player_chunk>>])

RECURSIVE StoreGroups(_, _, _, _)
StoreGroups(st, keys, n, chunk) ==
    IF n > Len(keys) THEN st
    ELSE StoreGroups(
            StoreAppend(st, keys[n], SelectSeq(chunk, LAMBDA row : GroupKey(row) = keys[n])),
            keys, n + 1, chunk)

RECURSIVE Flatten(_)
Flatten(qs) == IF qs = <<>> THEN <<>> ELSE qs[1] \o Flatten(Tail(qs))

\* a comes before b in sort_values('time_key'): NaN last
TimeBefore(a, b) == ~a.nan /\ (b.nan \/ a.v < b.v)

RECURSIVE sort_values(_)
sort_values(rows) ==
    IF rows = <<>> THEN <<>>
    ELSE LET m == CHOOSE r \in 1..Len(rows) :
                     /\ \A r2 \in 1..Len(rows) : ~TimeBefore(rows[r2].time_key, rows[r].time_key)
                     /\ \A r2 \in 1..(r - 1) : TimeBefore(rows[r].time_key, rows[r2].time_key)
         IN  <<rows[m]>> \o sort_values(SubSeq(rows, 1, m - 1) \o SubSeq(rows, m + 1, Len(rows)))

\* str(team_id).strip()
StripTeamId(team_id) == IF team_id = " T1" THEN "T1" ELSE team_id

\* team_id_map.get(clean_team_id, "UnknownTeam")
TeamNameOf(team_id) ==
    LET clean_team_id == StripTeamId(team_id)
    IN  IF clean_team_id \in DOMAIN team_id_map
        THEN team_id_map[clean_team_id] ELSE "UnknownTeam"

\* player_name_map.get((team_name, j_num_int), "Unknown")
PlayerNameOf(team_name, j_num_int) ==
    IF <<team_name, j_num_int>> \in DOMAIN player_name_map
    THEN player_name_map[<<team_name, j_num_int>>] ELSE "Unknown"

\* f"{team_name}_{player_name}" or f"{team_name}_Jersey_{j_num_int}"
KeyNameOf(team_name, player_name, j_num_int) ==
    IF player_name # "Unknown" THEN <<team_name, player_name>>
    ELSE <<team_name, "Jersey", j_num_int>>

\* One (key, chunks) item of the store made into the player's dataframe
FullPlayerDf(item) ==
    LET full == sort_values(Flatten(item.chunks))
        team_name == TeamNameOf(item.key[1])
        j_num_int == item.key[2]
        player_name == PlayerNameOf(team_name, j_num_int)
    IN  [key_name |-> KeyNameOf(team_name, player_name, j_num_int),
         rows |-> [r \in 1..Len(full) |->
                     [rid |-> full[r].rid, team_id |-> full[r].team_id,
                      time_key |-> full[r].time_key, half |-> full[r].half,
                      team_name |-> team_name, player_name |-> player_name,
                      jersey_number |-> j_num_int]]]

\* The loop of create_player_dataframes: player_dfs[key_name] = full_player_df
RECURSIVE PlayerDfs(_, _, _)
PlayerDfs(st, n, dfs) ==
    IF n > Len(st) THEN dfs
    ELSE LET d == FullPlayerDf(st[n])
         IN  PlayerDfs(st, n + 1, (d.key_name :> d.rows) @@ dfs)

FileNames == <<"match_1_0_full.csv", "match_2_45_1_full.csv">>

\* What a row of a file says of its player: <<team_id, jersey_number>>
RowMenu ==
    {<<"T1", <<7>>>>, <<"T2", <<7>>>>, <<"T1", <<9>>>>, <<" T1", <<7>>>>,
     <<"NaN", <<7>>>>, <<"T1", <<>>>>}

FileMenus == {<<>>} \cup [1..1 -> RowMenu] \cup [1..2 -> RowMenu]

\* The rows of file i: row r has the time_key r - 1 within its file
FileRows(i, menu) ==
    [r \in 1..Len(menu) |->
        [rid |-> <<i, r>>, team_id |-> menu[r][1], jersey_number |-> menu[r][2],
         time_key |-> Num(r - 1)]]

TeamIdMaps == {<<>>, ("T1" :> "Home") @@ ("T2" :> "Away")}

PlayerNameMaps == {<<>>, (<<"Home", 7>> :> "Ann")}

LdrInit ==
    /\ VorIdle
    /\ ConvIdle
    /\ CtlIdle
    /\ MgrIdle
    /\ ClipIdle
    /\ \E menus \in [1..Len(FileNames) -> FileMenus] :
       \E readable \in [1..Len(FileNames) -> BOOLEAN] :
          /\ \A i \in 1..Len(FileNames) : ~readable[i] => menus[i] = <<>>
          /\ sorted_files = [i \in 1..Len(FileNames) |->
                                [filename |-> FileNames[i], readable |-> readable[i],
                                 rows |-> FileRows(i, menus[i])]]
    /\ team_id_map \in TeamIdMaps
    /\ player_name_map \in PlayerNameMaps
    /\ file_i = 0
    /\ store = <<>>
    /\ global_time_offset = Num(0)
    /\ created_dfs = <<>>
    /\ ldr_pc = "files"

\* One iteration of the loop of process_tracking_files
ProcessFile ==
    /\ ldr_pc = "files"
    /\ file_i < Len(sorted_files)
    /\ LET i == file_i
           file == sorted_files[file_i + 1]
           current_half_id == parse_file_sequence(file.filename)[1]
           kept == dropna(file.rows)
           df_chunk == [r \in 1..Len(kept) |->
                           [rid |-> kept[r].rid, team_id |-> kept[r].team_id,
                            jersey_number |-> kept[r].jersey_number,
                            half |-> current_half_id,
                            time_key |-> IF i > 0
                                         THEN TAdd(kept[r].time_key, global_time_offset)
                                         ELSE kept[r].time_key]]
           keys == SortedKeys({GroupKey(df_chunk[r]) : r \in 1..Len(df_chunk)})
       IN  IF ~file.readable
           THEN UNCHANGED <<store, global_time_offset>>
           ELSE /\ global_time_offset' = TMax(df_chunk)
                /\ store' = StoreGroups(store, keys, 1, df_chunk)
    /\ file_i' = file_i + 1
    /\ ldr_pc' = IF file_i + 1 = Len(sorted_files) THEN "stored" ELSE "files"
    /\ UNCHANGED <<sorted_files, team_id_map, player_name_map, created_dfs,
                   vorVars, convVars, ctlVars, mgrVars, clipVars>>

CreatePlayerDataframes ==
    /\ ldr_pc = "stored"
    /\ created_dfs' = PlayerDfs(store, 1, <<>>)
    /\ ldr_pc' = "created"
    /\ UNCHANGED <<sorted_files, team_id_map, player_name_map, file_i, store,
                   global_time_offset, vorVars, convVars, ctlVars, mgrVars, clipVars>>

LdrNext == ProcessFile \/ CreatePlayerDataframes

SpecLoader == LdrInit /\ [][LdrNext]_vars

----------------------------------------------------------------------------
(* hawkeye_data_loader.convert_and_separate                                *)

pitch_length == 105

pitch_width == 68

RMinOf(S) == CHOOSE a \in S : \A b \in S : RLeq(a, b)

RMaxOf(S) == CHOOSE a \in S : \A b \in S : RLeq(b, a)

\* Mutant: the coordinates are not clipped
clip_none(a) == a

\* Series.clip(0, 100)
clip(a) ==
    IF RLess(a, RInt(0)) THEN RInt(0)
    ELSE IF RLess(RInt(100), a) THEN RInt(100) ELSE a

Column(df, col) == {df.rows[r][col] : r \in 1..Len(df.rows)}

\* not (x_min >= 0 and x_max <= 100 and y_min >= 0 and y_max <= 100)
needs_conversion(df) ==
    LET x_min == RMinOf(Column(df, "player_x"))
        x_max == RMaxOf(Column(df, "player_x"))
        y_min == RMinOf(Column(df, "player_y"))
        y_max == RMaxOf(Column(df, "player_y"))
    IN  ~(/\ RLeq(RInt(0), x_min) /\ RLeq(x_max, RInt(100))
          /\ RLeq(RInt(0), y_min) /\ RLeq(y_max, RInt(100)))

\* df['team_name'].iloc[0] == home_team_name
is_home_team(df, home_team_name) == df.team_name = home_team_name

\* Mutant: the away team is flipped in the second half like the home team
flip_mask_half_2(df, home_team_name, row) == row.half = 2

flip_mask(df, home_team_name, row) ==
    IF is_home_team(df, home_team_name) THEN row.half = 2 ELSE row.half = 1

\* Mutant: the y axis is not inverted
MetersToRaw_y_not_inverted(x, y) ==
    <<RMul(RAdd(RDiv(x, RInt(pitch_length)), <<1, 2>>), RInt(100)),
      RMul(RAdd(RDiv(y, RInt(pitch_width)), <<1, 2>>), RInt(100))>>

\* ((x / pitch_length) + 0.5) * 100, (1 - ((y / pitch_width) + 0.5)) * 100
MetersToRaw(x, y) ==
    <<RMul(RAdd(RDiv(x, RInt(pitch_length)), <<1, 2>>), RInt(100)),
      RMul(RSub(RInt(1), RAdd(RDiv(y, RInt(pitch_width)), <<1, 2>>)), RInt(100))>>

ConvertRow(df, home_team_name, row) ==
    LET raw == MetersToRaw(row.player_x, row.player_y)
        flip == flip_mask(df, home_team_name, row)
        x == IF flip THEN RSub(RInt(100), raw[1]) ELSE raw[1]
        y == IF flip THEN RSub(RInt(100), raw[2]) ELSE raw[2]
    IN  [player_x |-> clip(x), player_y |-> clip(y), half |-> row.half]

\* The body of the loop over player_dfs for one dataframe
ConvertDf(df, home_team_name) ==
    IF ~needs_conversion(df) THEN df
    ELSE [team_name |-> df.team_name,
          rows |-> [r \in 1..Len(df.rows) |-> ConvertRow(df, home_team_name, df.rows[r])]]

Restrict(f, S) == [k \in S |-> f[k]]

HomeTeamName == "Home"

TeamNames == {"Home", "Away"}

Keys == {"p1"}

Halves == {1, 2}

MaxRows == 2

\* Raw 0-100 points of the tracking rows: three on the pitch, a corner, one
\* beyond the goal line.
RawPoints == {<<25, 75>>, <<75, 25>>, <<50, 50>>, <<100, 0>>, <<125, 50>>}

\* A tracking row given in metres (centre origin) or already in raw 0-100
RowOf(units, pt, h) ==
    LET m == IF units = "meters" THEN wyscout_to_meters(RInt(pt[1]), RInt(pt[2]))
             ELSE <<RInt(pt[1]), RInt(pt[2])>>
    IN  [player_x |-> m[1], player_y |-> m[2], half |-> h]

RowInputs == RawPoints \X Halves

InputSeqs == {q \in SeqsUpTo(RowInputs, MaxRows) : Len(q) >= 1}

ConvInit ==
    /\ LdrIdle
    /\ ClipIdle
    /\ VorIdle
    /\ CtlIdle
    /\ MgrIdle
    /\ \E units \in {"meters", "wyscout"} :
         player_dfs \in [Keys -> {[team_name |-> t,
                                   rows |-> [r \in 1..Len(q) |-> RowOf(units, q[r][1], q[r][2])]] :
                                      t \in TeamNames, q \in InputSeqs}]
    /\ dfs_in = player_dfs
    /\ home_team_dfs = <<>>
    /\ away_team_dfs = <<>>
    /\ conv_calls = 0

ConvertAndSeparate ==
    /\ conv_calls < 2
    /\ LET out == [k \in DOMAIN player_dfs |-> ConvertDf(player_dfs[k], HomeTeamName)]
           home == {k \in DOMAIN out : is_home_team(out[k], HomeTeamName)}
       IN  /\ player_dfs' = out
           /\ home_team_dfs' = Restrict(out, home)
           /\ away_team_dfs' = Restrict(out, DOMAIN out \ home)
    /\ conv_calls' = conv_calls + 1
    /\ UNCHANGED <<dfs_in, vorVars, ctlVars, mgrVars, clipVars, ldrVars>>

ConvNext == ConvertAndSeparate

SpecConvert == ConvInit /\ [][ConvNext]_vars

----------------------------------------------------------------------------
(* pitch_control_plot_helper: the control surfaces Z and PC.               *)
(* The influence function is supplied by the caller; its values per team   *)
(* and location are inputs.  np.exp is taken at whole-number arguments as  *)
(* a power of a rational base near e, over exact rationals.                *)

ExpBase == <<19, 7>>

RECURSIVE RPow(_, _)
RPow(b, k) == IF k = 0 THEN RInt(1) ELSE RMul(b, RPow(b, k - 1))

\* np.exp(x) for a whole number x (given as a rational)
exp(x) ==
    IF x[1] >= 0 THEN RPow(ExpBase, x[1]) ELSE RInv(RPow(ExpBase, -x[1]))

\* Mutant: the influences are added instead of subtracted
control_Z_sum(home_infl, away_infl) ==
    RDiv(RInt(1), RAdd(RInt(1), exp(RNeg(RAdd(home_infl, away_infl)))))

\* 1 / (1 + np.exp(-(home_infl - away_infl)))
control_Z(home_infl, away_infl) ==
    RDiv(RInt(1), RAdd(RInt(1), exp(RNeg(RSub(home_infl, away_infl)))))

\* 1 / (1 + np.exp(-(h_infl - a_infl)))
control_PC(h_infl, a_infl) ==
    RDiv(RInt(1), RAdd(RInt(1), exp(RNeg(RSub(h_infl, a_infl)))))

Teams == {"A", "B"}

\* Query points of the grid
Locations == {"l1", "l2"}

MaxInfluence == 3

CtlInit ==
    /\ LdrIdle
    /\ ClipIdle
    /\ VorIdle
    /\ ConvIdle
    /\ MgrIdle
    /\ team_infl \in [Teams -> [Locations -> {RInt(v) : v \in 0..MaxInfluence}]]
    /\ Z_maps = <<>>
    /\ PC_maps = <<>>

GeneratePitchControlMap(home, away) ==
    /\ <<home, away>> \notin DOMAIN Z_maps
    /\ LET home_infl == team_infl[home]
           away_infl == team_infl[away]
           Z == [l \in Locations |-> control_Z(home_infl[l], away_infl[l])]
       IN  Z_maps' = Z_maps @@ (<<home, away>> :> Z)
    /\ UNCHANGED <<team_infl, PC_maps, vorVars, convVars, mgrVars, clipVars, ldrVars>>

PlotPcVsQ(home, away) ==
    /\ <<home, away>> \notin DOMAIN PC_maps
    /\ LET h_infl == team_infl[home]
           a_infl == team_infl[away]
           PC == [l \in Locations |-> control_PC(h_infl[l], a_infl[l])]
       IN  PC_maps' = PC_maps @@ (<<home, away>> :> PC)
    /\ UNCHANGED <<team_infl, Z_maps, vorVars, convVars, mgrVars, clipVars, ldrVars>>

CtlNext ==
    \E home \in Teams : \E away \in Teams \ {home} :
        \/ GeneratePitchControlMap(home, away)
        \/ PlotPcVsQ(home, away)

SpecControl == CtlInit /\ [][CtlNext]_vars

----------------------------------------------------------------------------
(* voronoi_helper.VoronoiManager, driven as in test_voronoi.py: one intro   *)
(* (animate_intro_one_by_one or display_direct) and then run_animation,    *)
(* whose loop is followed one frame at a time.                             *)

attack_color == "ORANGE"

defense_color == "BLUE_E"

\* str(team).strip().lower() on the team names of the tracking rows
StripLower(team) ==
    CASE team = "Attack" -> "attack"
      [] team = " defense" -> "defense"
      [] OTHER -> team

None == <<>>

RowsOfFrame(d, frame_id) == SelectSeq(d, LAMBDA row : row.frame = frame_id)

\* Mutant: every row but the ball's is a player row
IsPlayerRow_all_but_ball(row) == StripLower(row.team) # "ball"

IsPlayerRow(row) == StripLower(row.team) \in {"attack", "defense"}

PlayerOfRow(row) ==
    LET team == StripLower(row.team)
    IN  [pos |-> <<row.x, row.y>>,
         color |-> IF team = "attack" THEN attack_color ELSE defense_color,
         id |-> IF "player" \in DOMAIN row THEN row.player ELSE -1,
         team |-> team]

\* ball_pos after the loop: the last row that is not a player row
BallPos(rows) ==
    LET others == SelectSeq(rows, LAMBDA row : ~IsPlayerRow(row))
    IN  IF others = <<>> THEN None
        ELSE <<others[Len(others)].x, others[Len(others)].y>>

get_frame_data(d, frame_id) ==
    LET rows == RowsOfFrame(d, frame_id)
        prow == SelectSeq(rows, IsPlayerRow)
    IN  [players |-> [i \in 1..Len(prow) |-> PlayerOfRow(prow[i])],
         ball_pos |-> BallPos(rows)]

KeyOf(p) == <<p.team, p.id>>

Min(a, b) == IF a <= b THEN a ELSE b

\* zip(defenders, attackers) flattened, then the longer list's tail
Interleave(defenders, attackers) ==
    LET m == Min(Len(defenders), Len(attackers))
        zipped == [i \in 1..(2 * m) |->
                      IF i % 2 = 1 THEN defenders[(i + 1) \div 2] ELSE attackers[i \div 2]]
    IN  zipped \o SubSeq(defenders, Len(attackers) + 1, Len(defenders))
               \o SubSeq(attackers, Len(defenders) + 1, Len(attackers))

\* Dot(wyscout_to_manim(*p["pos"]), color=p["color"], ...)
NewDot(p, born) ==
    [pos |-> wyscout_to_manim(orientation, RInt(p.pos[1]), RInt(p.pos[2])),
     color |-> p.color, born |-> born]

\* Mutant: the degenerate cells are dropped before the colours are paired
VGroupOf_filter_first(cs, colors) ==
    LET kept == SelectSeq(cs, LAMBDA c : Len(c) >= 3)
    IN  [i \in 1..Min(Len(kept), Len(colors)) |->
            [cell |-> kept[i], fill_color |-> colors[i]]]

\* VGroup(*[Polygon(*cell, fill_color=c) for cell, c in zip(cells, colors)
\*          if len(cell) >= 3])
VGroupOf(cs, colors) ==
    LET n == Min(Len(cs), Len(colors))
        zipped == [i \in 1..n |-> [cell |-> cs[i], fill_color |-> colors[i]]]
    IN  SelectSeq(zipped, LAMBDA z : Len(z.cell) >= 3)

ColorsOf(players) == [i \in 1..Len(players) |-> players[i].color]

SitesOf(players) == [i \in 1..Len(players) |-> players[i].pos]

\* The Dots of a list of players, constructed in list order after the n0
\* Dots that exist; player_dots[key] = dot for each, a later player of the
\* same key replacing an earlier one.
DotsCreated(players, born) ==
    LET n0 == Len(mobjects)
        last(k) == CHOOSE i \in 1..Len(players) :
                      /\ KeyOf(players[i]) = k
                      /\ \A j \in (i + 1)..Len(players) : KeyOf(players[j]) # k
        keys == {KeyOf(players[i]) : i \in 1..Len(players)}
    IN  [mobjects |-> mobjects \o [i \in 1..Len(players) |-> NewDot(players[i], born)],
         player_dots |-> [k \in keys |-> n0 + last(k)] @@ player_dots,
         scene |-> scene \cup {n0 + i : i \in 1..Len(players)}]

\* Mutant: run_animation constructs a Dot for every player of every frame
RunPlayers_always_new(players, i, st, f) ==
    LET created == [i2 \in 1..Len(players) |-> Len(st.mobjects) + i2]
    IN  [mobjects |-> st.mobjects \o [i2 \in 1..Len(players) |-> NewDot(players[i2], <<"frame", f>>)],
         player_dots |-> [k \in {KeyOf(players[i2]) : i2 \in 1..Len(players)} |->
                             created[CHOOSE i2 \in 1..Len(players) : KeyOf(players[i2]) = k]]
                         @@ st.player_dots,
         scene |-> st.scene \cup {created[i2] : i2 \in 1..Len(players)}]

\* run_animation, the loop over the players of frame f from the i-th on
RECURSIVE RunPlayers(_, _, _, _)
RunPlayers(players, i, st, f) ==
    IF i > Len(players) THEN st
    ELSE LET p == players[i]
             key == KeyOf(p)
             dot == NewDot(p, <<"frame", f>>)
         IN  IF key \in DOMAIN st.player_dots
             THEN RunPlayers(players, i + 1,
                     [st EXCEPT !.mobjects[st.player_dots[key]].pos = dot.pos], f)
             ELSE RunPlayers(players, i + 1,
                     [mobjects |-> Append(st.mobjects, dot),
                      player_dots |-> (key :> (Len(st.mobjects) + 1)) @@ st.player_dots,
                      scene |-> st.scene \cup {Len(st.mobjects) + 1}], f)

RECURSIVE SortedSeq(_)
SortedSeq(S) ==
    IF S = {} THEN <<>>
    ELSE LET m == CHOOSE a \in S : \A b \in S : a <= b
         IN  <<m>> \o SortedSeq(S \ {m})

RECURSIVE Unique(_)
Unique(q) ==
    IF q = <<>> THEN <<>>
    ELSE LET front == Unique(SubSeq(q, 1, Len(q) - 1))
             x == q[Len(q)]
         IN  IF \E i \in 1..Len(front) : front[i] = x THEN front ELSE Append(front, x)

\* Mutant: df["frame"].unique() without sorted(): order of first appearance
frames_unsorted == Unique([r \in 1..Len(tracking_df) |-> tracking_df[r].frame])

\* sorted(df["frame"].unique())
frames == SortedSeq({tracking_df[r].frame : r \in 1..Len(tracking_df)})

FrameIds == {0, 1, 2}

IntroFrameIds == {0, 1}

\* Where the entity e stands in frame f (raw 0-100): every entity moves from
\* one frame to the next, and no two entities of a frame share a point.
PosList == <<<<25, 25>>, <<75, 50>>, <<25, 75>>, <<125, 50>>, <<150, 50>>>>

PosOf(e, f) == PosList[((e + f) % 5) + 1]

\* The rows one frame can hold, as <<team, player, entity>>
FrameMenu ==
    {<<>>,
     <<<<"defense", 1, 0>>, <<"attack", 1, 1>>, <<"ball", 0, 2>>>>,
     <<<<"Attack", 1, 1>>, <<" defense", 1, 0>>, <<"attack", 2, 3>>, <<"ball", 0, 2>>>>,
     <<<<"attack", 2, 3>>, <<"defense", 1, 0>>>>,
     <<<<"ball", 0, 2>>, <<"referee", 9, 4>>, <<"defense", 1, 0>>>>}

RowOfMenu(f, m, with_player) ==
    IF with_player
    THEN [frame |-> f, team |-> m[1], player |-> m[2],
          x |-> PosOf(m[3], f)[1], y |-> PosOf(m[3], f)[2]]
    ELSE [frame |-> f, team |-> m[1],
          x |-> PosOf(m[3], f)[1], y |-> PosOf(m[3], f)[2]]

FrameRows(f, menu, with_player) ==
    [i \in 1..Len(menu) |-> RowOfMenu(f, menu[i], with_player)]

\* File layouts: frames ascending, frames descending, no "player" column
Layouts == {"ascending", "descending", "no_player_column"}

DfOf(content, layout) ==
    LET wp == layout # "no_player_column"
    IN  IF layout = "descending"
        THEN FrameRows(2, content[2], wp) \o FrameRows(1, content[1], wp)
                 \o FrameRows(0, content[0], wp)
        ELSE FrameRows(0, content[0], wp) \o FrameRows(1, content[1], wp)
                 \o FrameRows(2, content[2], wp)

\* A menu without two players of one team, as a file without the "player"
\* column gives every player the id -1 and ids are unique within a frame.
OnePerTeam(menu) ==
    \A i, j \in 1..Len(menu) :
        (i # j /\ IsPlayerRow([team |-> menu[i][1]]) /\ IsPlayerRow([team |-> menu[j][1]]))
            => StripLower(menu[i][1]) # StripLower(menu[j][1])

MgrInit ==
    /\ LdrIdle
    /\ ClipIdle
    /\ orientation \in Orientations
    /\ points_ws = <<>>
    /\ cells = <<>>
    /\ clip_trace = <<>>
    /\ vor_pc = "idle"
    /\ ConvIdle
    /\ CtlIdle
    /\ \E content \in [FrameIds -> FrameMenu] : \E layout \in Layouts :
          /\ layout = "no_player_column" => \A f \in FrameIds : OnePerTeam(content[f])
          /\ tracking_df = DfOf(content, layout)
    /\ mgr_pc = "constructed"
    /\ frame_idx = 0
    /\ player_dots = <<>>
    /\ polygons = "list"
    /\ ball = 0
    /\ mobjects = <<>>
    /\ scene = {}
    /\ emitted = <<>>

Tessellate(players) ==
    VGroupOf(get_voronoi_cells(orientation, SitesOf(players)), ColorsOf(players))

AnimateIntroOneByOne(frame_id) ==
    /\ mgr_pc = "constructed"
    /\ LET players == get_frame_data(tracking_df, frame_id).players
           attackers == SelectSeq(players, LAMBDA p : p.team = "attack")
           defenders == SelectSeq(players, LAMBDA p : p.team = "defense")
           interleaved == Interleave(defenders, attackers)
           created == DotsCreated(interleaved, <<"intro">>)
       IN  /\ mobjects' = created.mobjects
           /\ player_dots' = created.player_dots
           /\ scene' = created.scene
           /\ polygons' = IF interleaved = <<>> THEN <<>> ELSE Tessellate(interleaved)
    /\ emitted' = Append(emitted, [by |-> "animate_intro_one_by_one", frame |-> frame_id])
    /\ mgr_pc' = "animating"
    /\ UNCHANGED <<tracking_df, frame_idx, ball, vorVars, convVars, ctlVars, clipVars, ldrVars>>

DisplayDirect(frame_id) ==
    /\ mgr_pc = "constructed"
    /\ LET players == get_frame_data(tracking_df, frame_id).players
           created == DotsCreated(players, <<"intro">>)
       IN  /\ mobjects' = created.mobjects
           /\ player_dots' = created.player_dots
           /\ scene' = created.scene
           /\ polygons' = Tessellate(players)
    /\ emitted' = Append(emitted, [by |-> "display_direct", frame |-> frame_id])
    /\ mgr_pc' = "animating"
    /\ UNCHANGED <<tracking_df, frame_idx, ball, vorVars, convVars, ctlVars, clipVars, ldrVars>>

\* One iteration of the loop of run_animation, up to scene.wait
RunAnimationFrame ==
    /\ mgr_pc = "animating"
    /\ frame_idx < Len(frames)
    /\ LET f == frames[frame_idx + 1]
           data == get_frame_data(tracking_df, f)
           st == RunPlayers(data.players, 1,
                    [mobjects |-> mobjects, player_dots |-> player_dots, scene |-> scene], f)
           b_pos == wyscout_to_manim(orientation, RInt(data.ball_pos[1]), RInt(data.ball_pos[2]))
       IN  /\ polygons' = Tessellate(data.players)
           /\ player_dots' = st.player_dots
           /\ IF data.ball_pos # None
              THEN IF ball = 0
                   THEN /\ ball' = Len(st.mobjects) + 1
                        /\ mobjects' = Append(st.mobjects,
                                          [pos |-> b_pos, color |-> "WHITE", born |-> <<"frame", f>>])
                        /\ scene' = st.scene \cup {Len(st.mobjects) + 1}
                   ELSE /\ mobjects' = [st.mobjects EXCEPT ![ball].pos = b_pos]
                        /\ scene' = st.scene
                        /\ ball' = ball
              ELSE /\ mobjects' = st.mobjects
                   /\ scene' = st.scene
                   /\ ball' = ball
    /\ emitted' = Append(emitted, [by |-> "run_animation", frame |-> frames[frame_idx + 1]])
    /\ frame_idx' = frame_idx + 1
    /\ UNCHANGED <<tracking_df, mgr_pc, vorVars, convVars, ctlVars, clipVars, ldrVars>>

Next ==
    \/ \E frame_id \in IntroFrameIds : AnimateIntroOneByOne(frame_id)
    \/ \E frame_id \in IntroFrameIds : DisplayDirect(frame_id)
    \/ RunAnimationFrame

Spec == MgrInit /\ [][Next]_vars

----------------------------------------------------------------------------
(* Exact geometry on the returned cells.  Every coordinate of one state is *)
(* brought to the common denominator Lat, and products of the resulting    *)
(* integers are formed as double words <<hi, lo>> = hi * WB + lo with      *)
(* 0 <= lo < WB.                                                           *)

WH == 64 * 64

WB == WH * WH

WMulAbs(x, y) ==
    LET x1 == x \div WH
        x0 == x % WH
        y1 == y \div WH
        y0 == y % WH
        mid == x1 * y0 + x0 * y1
        lo == (mid % WH) * WH + x0 * y0
    IN  <<x1 * y1 + (mid \div WH) + (lo \div WB), lo % WB>>

WNeg(w) == IF w[2] = 0 THEN <<-w[1], 0>> ELSE <<-w[1] - 1, WB - w[2]>>

WMul(a, b) ==
    IF (a < 0) # (b < 0) THEN WNeg(WMulAbs(Abs(a), Abs(b))) ELSE WMulAbs(Abs(a), Abs(b))

WAdd(u, v) == LET lo == u[2] + v[2] IN <<u[1] + v[1] + (lo \div WB), lo % WB>>

WSub(u, v) == WAdd(u, WNeg(v))

WSign(w) == IF w[1] < 0 THEN -1 ELSE IF w = <<0, 0>> THEN 0 ELSE 1

LCM(a, b) == (a \div GCD(a, b)) * b

RECURSIVE LcmOfPoly(_, _, _)
LcmOfPoly(poly, k, acc) ==
    IF k > Len(poly) THEN acc
    ELSE LcmOfPoly(poly, k + 1, LCM(LCM(acc, poly[k][1][2]), poly[k][2][2]))

RECURSIVE LcmOfPolys(_, _, _)
LcmOfPolys(polys, k, acc) ==
    IF k > Len(polys) THEN acc
    ELSE LcmOfPolys(polys, k + 1, LcmOfPoly(polys[k], 1, acc))

\* The sites of the current call, in display coordinates
Sites == pts_manim(orientation, points_ws)

IPt(L, v) == <<v[1][1] * (L \div v[1][2]), v[2][1] * (L \div v[2][2])>>

IPoly(L, poly) == [k \in 1..Len(poly) |-> IPt(L, poly[k])]

\* (b - a) x (c - a)
ICross(a, b, c) ==
    WSub(WMul(b[1] - a[1], c[2] - a[2]), WMul(b[2] - a[2], c[1] - a[1]))

RECURSIVE FanArea2(_, _, _)
FanArea2(ip, k, acc) ==
    IF k + 1 > Len(ip) THEN acc
    ELSE FanArea2(ip, k + 1, WAdd(acc, ICross(ip[1], ip[k], ip[k + 1])))

\* Twice the signed area of a polygon of integer points
Area2(ip) == FanArea2(ip, 2, <<0, 0>>)

\* |p - s|^2 - |p - s2|^2 = (s2 - s) . (2p - s - s2), on integer points
DistDiff(p, s, s2) ==
    WAdd(WMul(s2[1] - s[1], 2 * p[1] - s[1] - s2[1]),
         WMul(s2[2] - s[2], 2 * p[2] - s[2] - s2[2]))

Succ(k, n) == IF k = n THEN 1 ELSE k + 1

\* No right turn along the vertex sequence, or no left turn
IsConvex(ip) ==
    LET n == Len(ip)
        turn(k) == WSign(ICross(ip[k], ip[Succ(k, n)], ip[Succ(Succ(k, n), n)]))
    IN  \/ \A k \in 1..n : turn(k) >= 0
        \/ \A k \in 1..n : turn(k) <= 0

Between(a, b, x) == (a <= x /\ x <= b) \/ (b <= x /\ x <= a)

\* c lies on the closed segment a-b
OnSegment(a, b, c) ==
    /\ WSign(ICross(a, b, c)) = 0
    /\ Between(a[1], b[1], c[1])
    /\ Between(a[2], b[2], c[2])

\* The closed segments a-b and c-d share a point
SegmentsMeet(a, b, c, d) ==
    LET o1 == WSign(ICross(a, b, c))
        o2 == WSign(ICross(a, b, d))
        o3 == WSign(ICross(c, d, a))
        o4 == WSign(ICross(c, d, b))
    IN  \/ (o1 * o2 < 0 /\ o3 * o4 < 0)
        \/ OnSegment(a, b, c) \/ OnSegment(a, b, d)
        \/ OnSegment(c, d, a) \/ OnSegment(c, d, b)

\* A simple polygon: no vertex repeats and edges that are not neighbours
\* share no point
IsSimple(ip) ==
    LET n == Len(ip)
    IN  /\ \A k, m \in 1..n : k # m => ip[k] # ip[m]
        /\ \A k, m \in 1..n :
              (k < m /\ Succ(k, n) # m /\ Succ(m, n) # k)
                  => ~SegmentsMeet(ip[k], ip[Succ(k, n)], ip[m], ip[Succ(m, n)])

\* The interiors of two convex polygons are disjoint: one of them has no
\* interior, or an edge line of one has the other entirely on its outer side.
Separates(ip, jp) ==
    LET n == Len(ip)
        s == WSign(Area2(ip))
    IN  \E k \in 1..n :
            /\ ip[k] # ip[Succ(k, n)]
            /\ \A m \in 1..Len(jp) : WSign(ICross(ip[k], ip[Succ(k, n)], jp[m])) * s <= 0

InteriorsDisjoint(ip, jp) ==
    \/ Len(ip) < 3 \/ Len(jp) < 3
    \/ WSign(Area2(ip)) = 0 \/ WSign(Area2(jp)) = 0
    \/ Separates(ip, jp) \/ Separates(jp, ip)

\* Half the extent of the pitch along the display x and y axes
PitchHalf(o) ==
    LET hl == RMul(RMul(RInt(length), scale), <<1, 2>>)
        hw == RMul(RMul(RInt(width), scale), <<1, 2>>)
    IN  IF o = "horizontal" THEN <<hl, hw>> ELSE <<hw, hl>>

PitchCorners(o) ==
    LET h == PitchHalf(o)
    IN  {<<RNeg(h[1]), RNeg(h[2])>>, <<h[1], RNeg(h[2])>>, <<h[1], h[2]>>, <<RNeg(h[1]), h[2]>>}

\* p lies inside or on the pitch boundary rectangle
InPitch(o, p) ==
    LET h == PitchHalf(o)
    IN  RLeq(RAbs(p[1]), h[1]) /\ RLeq(RAbs(p[2]), h[2])

StrictlyInPitch(o, p) ==
    LET h == PitchHalf(o)
    IN  RLess(RAbs(p[1]), h[1]) /\ RLess(RAbs(p[2]), h[2])

SiteIdx == DOMAIN cells

RECURSIVE SumW(_, _, _)
SumW(ws, k, acc) == IF k > Len(ws) THEN acc ELSE SumW(ws, k + 1, WAdd(acc, ws[k]))

\* The current call on the integer lattice of its common denominator: the
\* sites, the cells, the pitch rectangle, and twice the area of every cell
\* (0 for a cell of fewer than 3 vertices)
Geo ==
    LET S == Sites
        L == LcmOfPolys(cells, 1, LcmOfPoly(S, 1, LcmOfPoly(<<PitchHalf(orientation)>>, 1, 1)))
        polys == [i \in SiteIdx |-> IPoly(L, cells[i])]
    IN  [sites |-> IPoly(L, S),
         polys |-> polys,
         pitch2 |-> LET h == PitchHalf(orientation)
                    IN  WMul(2 * IPt(L, h)[1], 4 * IPt(L, h)[2]),
         area2 |-> [i \in SiteIdx |->
                       IF Len(polys[i]) >= 3 THEN Area2(polys[i]) ELSE <<0, 0>>],
         coincident |-> [i \in SiteIdx |-> {j \in SiteIdx : Coincident(VSub(S[j], S[i]))}]]

----------------------------------------------------------------------------
(* Claims about get_voronoi_cells (specification SpecVoronoi)              *)

Done == vor_pc = "done"

HasPolygon(i) == Len(cells[i]) >= 3

\* Every vertex of cell i is at least as close to site i as to site j
NearestAtVertices(g, i, j) ==
    \A k \in 1..Len(g.polys[i]) :
        WSign(DistDiff(g.polys[i][k], g.sites[i], g.sites[j])) <= 0

\* Equality of the two distances is confined to the boundary of cell i: the
\* difference of squared distances is affine, so it vanishes at an interior
\* point of a convex cell only if it vanishes at every vertex.
EqualityOnlyOnBoundary(g, i, j) ==
    WSign(g.area2[i]) # 0 =>
        \E k \in 1..Len(g.polys[i]) :
            WSign(DistDiff(g.polys[i][k], g.sites[i], g.sites[j])) < 0

AllApart(g) == \A i \in SiteIdx : g.coincident[i] = {i}

DistinctInside ==
    /\ Len(points_ws) >= 2
    /\ \A i, j \in 1..Len(points_ws) : i # j => points_ws[i] # points_ws[j]
    /\ \A i \in 1..Len(points_ws) : StrictlyInPitch(orientation, Sites[i])

C3_NonOverlapAllCells ==
    Done => LET g == Geo
            IN  \A i, j \in SiteIdx :
                    i < j => InteriorsDisjoint(g.polys[i], g.polys[j])

\* C3 amended: no two cells whose sites are not coincident have a common
\* interior point.
C3_NonOverlap ==
    Done => LET g == Geo
            IN  \A i, j \in SiteIdx :
                    (i < j /\ j \notin g.coincident[i])
                        => InteriorsDisjoint(g.polys[i], g.polys[j])

C3_Witness ==
    /\ Done
    /\ Len(points_ws) = 3
    /\ LET g == Geo IN AllApart(g) /\ \A i \in SiteIdx : WSign(g.area2[i]) # 0

C5_ConvexSimple ==
    Done => LET g == Geo
            IN  \A i \in SiteIdx : HasPolygon(i) =>
                    IsConvex(g.polys[i]) /\ IsSimple(g.polys[i])

\* C6: when sites i and j are closer than 1e-7 neither is clipped against
\* the other, each one's cell is the cell it gets when the other is left out
\* of the list, and no clip uses a zero normal vector.
RemoveAt(seq, j) == [k \in 1..(Len(seq) - 1) |-> IF k < j THEN seq[k] ELSE seq[k + 1]]

CellWithout(i, j) ==
    get_voronoi_cells(orientation, RemoveAt(points_ws, j))[IF i < j THEN i ELSE i - 1]

C6_CoincidentSkipped ==
    Done =>
        LET g == Geo
        IN  /\ \A i \in SiteIdx : \A j \in g.coincident[i] \ {i} :
                  /\ \A k \in 1..Len(clip_trace[i]) : clip_trace[i][k][1] # j
                  /\ cells[i] = CellWithout(i, j)
            /\ \A i \in SiteIdx : \A k \in 1..Len(clip_trace[i]) :
                  clip_trace[i][k][2] # <<RInt(0), RInt(0)>>

C6_Witness ==
    /\ Done
    /\ Len(points_ws) = 3
    /\ points_ws[1] = points_ws[3]
    /\ points_ws[1] # points_ws[2]
    /\ Len(clip_trace[1]) = 1
    /\ Len(cells[1]) >= 4

\* C7 as stated: with fewer than 2 sites the returned cell set is empty.
C7_FewSitesEmpty == (Done /\ Len(points_ws) < 2) => cells = <<>>

\* C7 amended: with no site the returned cell set is empty; with exactly one
\* site it holds one cell, the whole pitch boundary rectangle.
C7_FewSites ==
    /\ (Done /\ Len(points_ws) = 0) => cells = <<>>
    /\ (Done /\ Len(points_ws) = 1) =>
           /\ Len(cells) = 1
           /\ Len(cells[1]) = 4
           /\ {cells[1][k] : k \in 1..4} = PitchCorners(orientation)

C7_Witness == Done /\ Len(points_ws) = 1 /\ cells # <<>>

----------------------------------------------------------------------------
(* Claims about convert_and_separate, checked under SpecConvert.           *)

Unflipped(df, row) == ~flip_mask(df, HomeTeamName, row)

\* The metric point lies on the pitch: |x| <= length/2 and |y| <= width/2
MetricOnPitch(row) ==
    /\ RLeq(RAbs(row.player_x), <<length, 2>>)
    /\ RLeq(RAbs(row.player_y), <<width, 2>>)

\* Raw output of the conversion taken to metres again equals the metric input
RoundTrips(k, r) ==
    LET out == player_dfs[k].rows[r]
        in == dfs_in[k].rows[r]
    IN  wyscout_to_meters(out.player_x, out.player_y) = <<in.player_x, in.player_y>>

\* C8: for the un-flipped horizontal configuration, a metric point
\* taken back to raw 0-100 by convert_and_separate and to metres again by
\* wyscout_to_meters is the first metric point, for every input point,
\* out-of-pitch points included.
C8_RoundTripEveryInput ==
    conv_calls = 1 =>
        \A k \in DOMAIN player_dfs : \A r \in 1..Len(dfs_in[k].rows) :
            Unflipped(dfs_in[k], dfs_in[k].rows[r]) => RoundTrips(k, r)

\* Where the round trip does hold: an un-flipped row whose metric point lies
\* on the pitch, in a dataframe that convert_and_separate converts (some
\* coordinate of it outside [0, 100]).
C8_RoundTrip ==
    conv_calls = 1 =>
        \A k \in DOMAIN player_dfs : \A r \in 1..Len(dfs_in[k].rows) :
            (/\ Unflipped(dfs_in[k], dfs_in[k].rows[r])
             /\ needs_conversion(dfs_in[k])
             /\ MetricOnPitch(dfs_in[k].rows[r])) => RoundTrips(k, r)

\* An un-flipped on-pitch metric point away from the centre was converted in
\* a dataframe that also holds an out-of-pitch row.
C8_Witness ==
    /\ conv_calls = 1
    /\ \E k \in DOMAIN player_dfs : \E r, r2 \in 1..Len(dfs_in[k].rows) :
          /\ Unflipped(dfs_in[k], dfs_in[k].rows[r])
          /\ needs_conversion(dfs_in[k])
          /\ MetricOnPitch(dfs_in[k].rows[r])
          /\ ~MetricOnPitch(dfs_in[k].rows[r2])
          /\ dfs_in[k].rows[r].player_x # RInt(0)
          /\ dfs_in[k].rows[r].player_y # RInt(0)
          /\ player_dfs[k].rows[r] # dfs_in[k].rows[r]
          /\ RoundTrips(k, r)

----------------------------------------------------------------------------
(* Claims about the control surfaces, checked under SpecControl.           *)

StrictlyBetween0And1(v) == RLess(RInt(0), v) /\ RLess(v, RInt(1))

Complementary(maps, home, away) ==
    \A l \in Locations :
        RAdd(maps[<<home, away>>][l], maps[<<away, home>>][l]) = RInt(1)

\* C9: every control value 1/(1+exp(-(home_influence - away_influence))) lies
\* strictly between 0 and 1, and the value computed with the home and away
\* teams swapped is its complement: the two add up to 1 at every query point.
C9_ControlSymmetry ==
    \A maps \in {Z_maps, PC_maps} :
        /\ \A c \in DOMAIN maps : \A l \in Locations :
              StrictlyBetween0And1(maps[c][l])
        /\ \A home \in Teams : \A away \in Teams \ {home} :
              ({<<home, away>>, <<away, home>>} \subseteq DOMAIN maps)
                  => Complementary(maps, home, away)

\* Both surfaces were computed in both team orders, at one location the
\* influences differ and at the other they are equal and not zero.
C9_Witness ==
    /\ DOMAIN Z_maps = {<<"A", "B">>, <<"B", "A">>}
    /\ DOMAIN PC_maps = {<<"A", "B">>, <<"B", "A">>}
    /\ team_infl["A"]["l1"] = RInt(3) /\ team_infl["B"]["l1"] = RInt(1)
    /\ team_infl["A"]["l2"] = RInt(2) /\ team_infl["B"]["l2"] = RInt(2)
    /\ Z_maps[<<"A", "B">>]["l1"] # Z_maps[<<"B", "A">>]["l1"]
    /\ PC_maps[<<"A", "B">>]["l2"] = <<1, 2>>

----------------------------------------------------------------------------
(* Claims about VoronoiManager, checked under Spec.                        *)

\* The players of the frame the loop of run_animation completed last
LastPlayers == get_frame_data(tracking_df, frames[frame_idx]).players

ManimPos(p) == wyscout_to_manim(orientation, RInt(p.pos[1]), RInt(p.pos[2]))

\* A step keeps every binding of player_dots, binds each new key to a Dot
\* constructed in that step, and constructs no Dot for a key already bound.
HandlesKept ==
    LET old == DOMAIN player_dots
        new == DOMAIN player_dots' \ old
        ball_new == IF ball = 0 /\ ball' # 0 THEN 1 ELSE 0
    IN  /\ \A k \in old : k \in DOMAIN player_dots' /\ player_dots'[k] = player_dots[k]
        /\ \A k \in new : player_dots'[k] \in (Len(mobjects) + 1)..Len(mobjects')
        /\ \A k, k2 \in DOMAIN player_dots' :
              k # k2 => player_dots'[k] # player_dots'[k2]
        /\ Len(mobjects') = Len(mobjects) + Cardinality(new) + ball_new

\* After a frame of run_animation every player of the frame is bound to a
\* Dot on the scene that stands at the player's position of that frame.
PlayersMoved ==
    frame_idx' = frame_idx + 1 =>
        LET players == get_frame_data(tracking_df', frames'[frame_idx']).players
        IN  \A i \in 1..Len(players) :
               /\ KeyOf(players[i]) \in DOMAIN player_dots'
               /\ player_dots'[KeyOf(players[i])] \in scene'
               /\ mobjects'[player_dots'[KeyOf(players[i])]].pos = ManimPos(players[i])

\* C10: across the frames VoronoiManager processes (an intro followed by
\* run_animation) each key (team, id) is bound to one Dot, constructed in the
\* step where the key first appears; every later frame holding the key moves
\* that Dot and constructs none, and no step removes a key from player_dots,
\* whether or not the frame holds the entity.
C10_HandleContinuity == [][HandlesKept /\ PlayersMoved]_vars

\* Two frames of run_animation are done: a Dot of the intro was moved to its
\* player's position in the last frame, a key absent from the last frame is
\* still bound, and another key was first bound during run_animation.
C10_Witness ==
    /\ mgr_pc = "animating"
    /\ frame_idx >= 2
    /\ \E i \in 1..Len(LastPlayers) :
          LET dot == mobjects[player_dots[KeyOf(LastPlayers[i])]]
          IN  /\ dot.born = <<"intro">>
              /\ dot.pos = ManimPos(LastPlayers[i])
    /\ \E k \in DOMAIN player_dots :
          \A i \in 1..Len(LastPlayers) : KeyOf(LastPlayers[i]) # k
    /\ \E k \in DOMAIN player_dots : mobjects[player_dots[k]].born[1] = "frame"

\* The frames shown by run_animation, in the order it showed them
RunEmitted == SelectSeq(emitted, LAMBDA em : em.by = "run_animation")

\* C11: a frame id that is not strictly greater than the last frame id
\* processed is refused with an error and is not processed, so the frame ids
\* shown (by the intro and by run_animation) are strictly increasing.
C11_OutOfOrderRefused ==
    \A i \in 2..Len(emitted) : emitted[i].frame > emitted[i - 1].frame

\* C12: within run_animation the frames are shown in strictly increasing
\* frame-id order, and once the loop is over every distinct frame id of the
\* table was shown exactly once, whatever the row order of the table.
C12_FrameOrder ==
    /\ \A i \in 2..Len(RunEmitted) : RunEmitted[i].frame > RunEmitted[i - 1].frame
    /\ \A i \in 1..Len(RunEmitted) :
          \E r \in 1..Len(tracking_df) : tracking_df[r].frame = RunEmitted[i].frame
    /\ (mgr_pc = "animating" /\ frame_idx = Len(frames)) =>
          \A r \in 1..Len(tracking_df) :
              Cardinality({i \in 1..Len(RunEmitted) :
                              RunEmitted[i].frame = tracking_df[r].frame}) = 1

\* run_animation went through a table of three frames whose rows come in
\* descending frame order.
C12_Witness ==
    /\ mgr_pc = "animating"
    /\ Len(RunEmitted) = 3
    /\ frame_idx = Len(frames)
    /\ tracking_df[1].frame > tracking_df[Len(tracking_df)].frame

\* The frame shown last, its rows, and what the frame is by its rows' own
\* team names: the ball row, the rows of the two teams, the other rows.
LastEm == emitted[Len(emitted)]

LastRows == RowsOfFrame(tracking_df, LastEm.frame)

BallRowsOf(rows) == SelectSeq(rows, LAMBDA row : row.team = "ball")

TeamRowsOf(rows) ==
    SelectSeq(rows, LAMBDA row : row.team \in {"attack", "Attack", "defense", " defense"})

UnassignedRowsOf(rows) ==
    SelectSeq(rows, LAMBDA row :
        row.team \notin {"attack", "Attack", "defense", " defense", "ball"})

\* C13: after run_animation processed a frame that has no ball row, no ball
\* is displayed for that frame (the ball output is none), also when an
\* earlier frame did have a ball; no error is raised.
C13_MissingBallNone ==
    (/\ Len(emitted) > 0
     /\ LastEm.by = "run_animation"
     /\ BallRowsOf(LastRows) = <<>> /\ UnassignedRowsOf(LastRows) = <<>>)
        => (ball = 0 \/ ball \notin scene)

\* C14: for every frame shown, the ball position returned by get_frame_data
\* is the position of the frame's ball row, and none exactly when the frame
\* has no ball row, whatever other rows the frame holds and in whatever order.
C14_BallIdentity ==
    \A i \in 1..Len(emitted) :
        LET rows == RowsOfFrame(tracking_df, emitted[i].frame)
            b == BallRowsOf(rows)
            ball_pos == get_frame_data(tracking_df, emitted[i].frame).ball_pos
        IN  IF b = <<>> THEN ball_pos = None ELSE ball_pos = <<b[1].x, b[1].y>>

\* C15: rows whose team is neither of the two teams are not sites: the
\* players of a frame are exactly its rows of the two teams, no polygon and
\* no entry of player_dots exists for another row, and no Dot was constructed
\* beyond one per key of the two teams and the ball's.
C15_UnassignedExcluded ==
    /\ \A k \in DOMAIN player_dots : k[1] \in {"attack", "defense"}
    /\ Len(mobjects) = Cardinality(DOMAIN player_dots) + (IF ball = 0 THEN 0 ELSE 1)
    /\ Len(emitted) > 0 =>
          LET players == get_frame_data(tracking_df, LastEm.frame).players
              team_rows == TeamRowsOf(LastRows)
          IN  /\ Len(players) = Len(team_rows)
              /\ \A i \in 1..Len(players) :
                    players[i].pos = <<team_rows[i].x, team_rows[i].y>>
              /\ Len(polygons) <= Len(team_rows)

\* A frame with a referee row and a player row was processed by run_animation
C15_Witness ==
    /\ Len(emitted) > 0
    /\ LastEm.by = "run_animation"
    /\ UnassignedRowsOf(LastRows) # <<>>
    /\ TeamRowsOf(LastRows) # <<>>
    /\ Len(polygons) >= 1
    /\ Cardinality(DOMAIN player_dots) >= 2

\* The point v is at least as close to the site s as to the site t
CloserOrEqual(v, s, t) ==
    RLeq(RMul(RInt(2), Dot(v, VSub(t, s))), RSub(Dot(t, t), Dot(s, s)))

\* Every vertex of the cell is at least as close to player i as to any other
OwnsCell(players, i, cell) ==
    \A k \in 1..Len(cell) : \A j \in 1..Len(players) :
        CloserOrEqual(cell[k], ManimPos(players[i]), ManimPos(players[j]))

\* C19: get_voronoi_cells returns one cell per point, in the order of the
\* points, so every polygon drawn for the frame shown last is a cell of at
\* least 3 vertices filled with the colour of the player whose site owns it,
\* also when cells of fewer than 3 vertices were left out.
C19_CellPerPoint ==
    Len(emitted) > 0 =>
        \A players \in {get_frame_data(tracking_df, LastEm.frame).players} :
        \A cs \in {get_voronoi_cells(orientation, SitesOf(players))} :
            /\ Len(cs) = Len(players)
            /\ Len(polygons) = Cardinality({i \in 1..Len(cs) : Len(cs[i]) >= 3})
            /\ \A n \in 1..Len(polygons) :
                  /\ Len(polygons[n].cell) >= 3
                  /\ \E i \in 1..Len(players) :
                        /\ players[i].color = polygons[n].fill_color
                        /\ cs[i] = polygons[n].cell
                        /\ OwnsCell(players, i, polygons[n].cell)

\* The first site of the frame shown last got a cell of fewer than 3
\* vertices, which was left out, and a later site of the other team got a
\* polygon.
C19_Witness ==
    /\ Len(emitted) > 0
    /\ \E players \in {get_frame_data(tracking_df, LastEm.frame).players} :
       \E cs \in {get_voronoi_cells(orientation, SitesOf(players))} :
           /\ Len(players) >= 2
           /\ Len(cs[1]) < 3
           /\ Len(polygons) >= 1
           /\ polygons[1].fill_color # players[1].color

\* The row as convert_and_separate has to return it when it converts the
\* dataframe: metres to raw 0-100, inverted when flip holds, clipped.
ExpectedRow(row, flip) ==
    LET raw == MetersToRaw(row.player_x, row.player_y)
        x == IF flip THEN RSub(RInt(100), raw[1]) ELSE raw[1]
        y == IF flip THEN RSub(RInt(100), raw[2]) ELSE raw[2]
        lim(a) == IF RLess(a, RInt(0)) THEN RInt(0)
                  ELSE IF RLess(RInt(100), a) THEN RInt(100) ELSE a
    IN  [player_x |-> lim(x), player_y |-> lim(y), half |-> row.half]

\* Home-team row of half 2 or away-team row of half 1
FlipRule(d, row) ==
    \/ d.team_name = HomeTeamName /\ row.half = 2
    \/ d.team_name # HomeTeamName /\ row.half = 1

\* C16 (as stated): in the output of convert_and_separate a row has both
\* coordinates inverted (100 - x, 100 - y) if and only if it is a home-team
\* row of half 2 or an away-team row of half 1, for every player dataframe.
C16_HalfFlipEveryDf ==
    conv_calls = 1 =>
        \A k \in DOMAIN player_dfs : \A r \in 1..Len(dfs_in[k].rows) :
            player_dfs[k].rows[r] =
                ExpectedRow(dfs_in[k].rows[r], FlipRule(dfs_in[k], dfs_in[k].rows[r]))

\* C16 (amended): in a dataframe with some coordinate outside [0, 100] a row
\* is inverted if and only if it is a home-team row of half 2 or an away-team
\* row of half 1; a dataframe with every coordinate inside [0, 100] is
\* returned as it is, no row of it inverted.
C16_HalfFlip ==
    conv_calls = 1 =>
        \A k \in DOMAIN player_dfs : \A r \in 1..Len(dfs_in[k].rows) :
            IF \E r2 \in 1..Len(dfs_in[k].rows) : \E col \in {"player_x", "player_y"} :
                  \/ RLess(dfs_in[k].rows[r2][col], RInt(0))
                  \/ RLess(RInt(100), dfs_in[k].rows[r2][col])
            THEN player_dfs[k].rows[r] =
                    ExpectedRow(dfs_in[k].rows[r], FlipRule(dfs_in[k], dfs_in[k].rows[r]))
            ELSE player_dfs[k].rows[r] = dfs_in[k].rows[r]

\* An away-team dataframe was converted: its row of half 1 came out inverted
\* and its row of half 2 did not.
C16_Witness ==
    /\ conv_calls = 1
    /\ \E k \in DOMAIN player_dfs : \E r, r2 \in 1..Len(dfs_in[k].rows) :
          /\ dfs_in[k].team_name # HomeTeamName
          /\ dfs_in[k].rows[r].half = 1
          /\ dfs_in[k].rows[r2].half = 2
          /\ player_dfs[k].rows[r] = ExpectedRow(dfs_in[k].rows[r], TRUE)
          /\ player_dfs[k].rows[r] # ExpectedRow(dfs_in[k].rows[r], FALSE)
          /\ player_dfs[k].rows[r2] = ExpectedRow(dfs_in[k].rows[r2], FALSE)
          /\ player_dfs[k].rows[r2] # ExpectedRow(dfs_in[k].rows[r2], TRUE)

InRange0To100(d) ==
    \A r \in 1..Len(d.rows) : \A col \in {"player_x", "player_y"} :
        RLeq(RInt(0), d.rows[r][col]) /\ RLeq(d.rows[r][col], RInt(100))

\* C20: after a call of convert_and_separate every player_x and player_y of
\* every returned dataframe lies in [0, 100], and a call on its own output
\* changes no coordinate and returns the same home and away dictionaries.
C20_Idempotent ==
    [][/\ \A k \in DOMAIN home_team_dfs' : InRange0To100(home_team_dfs'[k])
       /\ \A k \in DOMAIN away_team_dfs' : InRange0To100(away_team_dfs'[k])
       /\ conv_calls' >= 1 =>
             (DOMAIN home_team_dfs' \cup DOMAIN away_team_dfs') = DOMAIN player_dfs
       /\ conv_calls >= 1 =>
             /\ player_dfs' = player_dfs
             /\ home_team_dfs' = home_team_dfs
             /\ away_team_dfs' = away_team_dfs]_vars

\* The second call is done, on a dataframe the first call converted and
\* clipped at 100.
C20_Witness ==
    /\ conv_calls = 2
    /\ \E k \in DOMAIN player_dfs :
          /\ player_dfs[k] # dfs_in[k]
          /\ \E r \in 1..Len(player_dfs[k].rows) :
                /\ player_dfs[k].rows[r].player_x = RInt(100)
                /\ RLess(RInt(100), MetersToRaw(dfs_in[k].rows[r].player_x,
                                                dfs_in[k].rows[r].player_y)[1])

----------------------------------------------------------------------------
(* Claims about _clip_poly_halfspace_2d, checked under SpecClip.           *)

\* The vertex passes the half-plane test with its tolerance: n.p <= c + eps
ClipInside(p) == RLeqInv(RSub(Dot(clip_n, p), clip_c), EpsInv)

\* The vertex passes the test by the tolerance only: c < n.p <= c + eps
InBand(p) == RLess(clip_c, Dot(clip_n, p)) /\ ClipInside(p)

OnLineThrough(x, a, b) ==
    RSub(RMul(RSub(b[1], a[1]), RSub(x[2], a[2])),
         RMul(RSub(b[2], a[2]), RSub(x[1], a[1]))) = RInt(0)

BetweenR(u, a, b) == (RLeq(a, u) /\ RLeq(u, b)) \/ (RLeq(b, u) /\ RLeq(u, a))

OnSegmentR(x, a, b) ==
    /\ OnLineThrough(x, a, b)
    /\ BetweenR(x[1], a[1], b[1])
    /\ BetweenR(x[2], a[2], b[2])

\* The inserted point x between prev and cur is as required: on the segment
\* (strict), or on the line of the edge where n.x = c and on the segment
\* when neither vertex is in the tolerance band.
InsertedOk(x, prev, cur, strict) ==
    IF strict THEN OnSegmentR(x, prev, cur)
    ELSE /\ OnLineThrough(x, prev, cur)
         /\ Dot(clip_n, x) = clip_c
         /\ (~InBand(prev) /\ ~InBand(cur)) => OnSegmentR(x, prev, cur)

\* |n.(cur - prev)| <= 1e-12
EdgeAlongBoundary(prev, cur) ==
    LET d == RAbs(Dot(clip_n, VSub(cur, prev)))
    IN  RLeqInv(<<d[1], d[2] \div DenomTolRootInv>>, DenomTolRootInv)

\* clip_out from position pos on is what the vertices k.. of clip_poly give:
\* for each vertex in traversal order, one inserted point if its class
\* differs from the previous vertex's, then the vertex itself if inside.
RECURSIVE ClipAccepts(_, _, _)
ClipAccepts(k, pos, strict) ==
    IF k > Len(clip_poly) THEN pos = Len(clip_out) + 1
    ELSE LET prev == clip_poly[IF k = 1 THEN Len(clip_poly) ELSE k - 1]
             cur == clip_poly[k]
             differ == /\ ClipInside(prev) # ClipInside(cur)
                       /\ strict \/ ~EdgeAlongBoundary(prev, cur)
             pos1 == IF differ THEN pos + 1 ELSE pos
             pos2 == IF ClipInside(cur) THEN pos1 + 1 ELSE pos1
         IN  /\ differ => (pos <= Len(clip_out)
                           /\ InsertedOk(clip_out[pos], prev, cur, strict))
             /\ ClipInside(cur) => (pos1 <= Len(clip_out) /\ clip_out[pos1] = cur)
             /\ ClipAccepts(k + 1, pos2, strict)

\* C18 (as stated): where two consecutive vertices are classified differently
\* by the eps-tolerant test, exactly one point is inserted between them and
\* it lies on the segment joining them; every vertex classified inside is
\* retained; the output follows the traversal order of the input.
C18_ClipStepOnSegment == clip_pc = "done" => ClipAccepts(1, 1, TRUE)

\* C18 (amended): the one inserted point is the point of the edge's line
\* where n.p = c; it lies on the segment joining the two vertices when
\* neither of them is within the tolerance band c < n.v <= c + eps; no
\* point is inserted for an edge with |n.(cur - prev)| <= 1e-12.
C18_ClipStep == clip_pc = "done" => ClipAccepts(1, 1, FALSE)

\* A triangle was cut: two points were inserted, a vertex kept, one dropped
C18_Witness ==
    /\ clip_pc = "done"
    /\ Len(clip_poly) = 3
    /\ Len(clip_out) = 4
    /\ ClipInside(clip_poly[1]) /\ ~ClipInside(clip_poly[2]) /\ ClipInside(clip_poly[3])
    /\ clip_out[1] = clip_poly[1]
    /\ clip_out[4] = clip_poly[3]
    /\ clip_out[2] # clip_poly[1] /\ clip_out[3] # clip_poly[3]
    /\ OnSegmentR(clip_out[2], clip_poly[1], clip_poly[2])

----------------------------------------------------------------------------
(* Claims about the loader, checked under SpecLoader.                      *)

\* The rows read from the files that name their team and their jersey
IdentifiedRows ==
    {row \in UNION {{sorted_files[i].rows[r] : r \in 1..Len(sorted_files[i].rows)} :
                       i \in {i2 \in 1..Len(sorted_files) : sorted_files[i2].readable}} :
        row.team_id # "NaN" /\ row.jersey_number # <<>>}

\* Where the input row is found in the dataframes created
PlacesOf(row) ==
    {<<k, r>> \in UNION {{<<k2, r2>> : r2 \in 1..Len(created_dfs[k2])} :
                            k2 \in DOMAIN created_dfs} :
        created_dfs[k][r].rid = row.rid}

\* C17: after process_tracking_files and create_player_dataframes every
\* input row with a team_id and a jersey_number is found exactly once, in
\* exactly one player dataframe, and each player dataframe holds the rows of
\* exactly one (team_id, jersey_number).
C17_ExactlyOnce ==
    ldr_pc = "created" =>
        /\ \A row \in IdentifiedRows : Cardinality(PlacesOf(row)) = 1
        /\ \A k \in DOMAIN created_dfs : \A r, r2 \in 1..Len(created_dfs[k]) :
              /\ created_dfs[k][r].team_id = created_dfs[k][r2].team_id
              /\ created_dfs[k][r].jersey_number = created_dfs[k][r2].jersey_number

\* The rows held in the store, each with the file it came from in rid[1]
StoredRows ==
    UNION {UNION {{st_chunk[r] : r \in 1..Len(st_chunk)} :
                     st_chunk \in {store[n].chunks[q] : q \in 1..Len(store[n].chunks)}} :
              n \in 1..Len(store)}

\* C21: the files' own time_key values being non-negative, every time_key
\* stored from a file is a number, and it is greater than or equal to the
\* largest time_key stored from any earlier file, also when a file is
\* skipped on a read error or contributes no identifiable rows.
C21_ContinuousTime ==
    \A row \in StoredRows :
        /\ ~row.time_key.nan
        /\ \A earlier \in StoredRows :
              earlier.rid[1] < row.rid[1] =>
                  /\ ~earlier.time_key.nan
                  /\ earlier.time_key.v <= row.time_key.v

====
